---- MODULE Spec2Model ----
(***************************************************************************)
(* Link Manager: the Cloudflare worker (src/worker/index.ts: password      *)
(* gate, login, change-password and the /api/data document store on KV)    *)
(* and the browser client's LinkManager component (src/unnamed/part_000:   *)
(* categories, links, delete and drag-and-drop reordering).                *)
(*                                                                         *)
(* The worker is modelled one request at a time: the action Fetch is the   *)
(* whole `fetch` handler applied to one request, from the first route test *)
(* to the returned response (or the exception that escapes it), and        *)
(* Deliver ends the invocation.  The client is modelled one event handler  *)
(* at a time.                                                              *)
(***************************************************************************)
EXTENDS Integers, Sequences, FiniteSets, TLC

(***************************************************************************)
(* Bounds of the model.                                                    *)
(***************************************************************************)
\* how many passwords besides the compiled-in default the requests draw from
NumPasswords == 2
\* how many links a dataset posted to /api/data holds at most
MaxPosted == 2
\* how many links and categories the client's collections hold at most
MaxLinks == 4
MaxCategories == 3
\* how many changes of the collections a session makes at most
MaxEdits == 1

\* how many characters a search query has at most
MaxQuery == 2

(***************************************************************************)
(* State.                                                                  *)
(*   kvConfig, kvData   the two KV entries (CONFIG_KEY, DATA_KEY)          *)
(*   last               the exchange being answered: the request the       *)
(*                      worker processed, its response and the KV entries  *)
(*                      before it                                          *)
(*   posted             the body of the last POST /api/data the worker     *)
(*                      answered {ok: true} to, if any                     *)
(*   categories, links, selectedCategory, deleteTarget, draggedItem,       *)
(*   dragOverId, dropPosition   the LinkManager component's React state    *)
(*   loaded             whether loadData has run                           *)
(*   edits              how many edits (add, change, delete, drop) the     *)
(*                      user made                                          *)
(*   ev                 the last client event handled, with its arguments  *)
(*   saveTimer          the timeout of the persistence effect, with the    *)
(*                      dataset its callback will save                     *)
(*   localStorage       the browser's entry under STORAGE_KEY              *)
(*   searchQuery        the text of the search box, a sequence of          *)
(*                      characters                                         *)
(*   inflight           the bodies of the POSTs to /api/data the browser   *)
(*                      sent and the worker has not received yet           *)
(***************************************************************************)
VARIABLES kvConfig, kvData, last, posted,
          categories, links, selectedCategory, deleteTarget,
          draggedItem, dragOverId, dropPosition, loaded, edits, ev,
          saveTimer, localStorage, searchQuery, inflight

serverVars == <<kvConfig, kvData, last, posted>>
clientVars == <<categories, links, selectedCategory, deleteTarget,
                draggedItem, dragOverId, dropPosition, loaded, edits, ev,
                saveTimer, localStorage, searchQuery>>
vars == <<kvConfig, kvData, last, posted,
          categories, links, selectedCategory, deleteTarget,
          draggedItem, dragOverId, dropPosition, loaded, edits, ev,
          saveTimer, localStorage, searchQuery, inflight>>

(***************************************************************************)
(* JavaScript values, as far as the worker handles them.                   *)
(***************************************************************************)
Null == [t |-> "null"]
Undefined == [t |-> "undefined"]
Str(s) == [t |-> "string", s |-> s]
Num(n) == [t |-> "number", n |-> n, finite |-> TRUE]
Bool(b) == [t |-> "boolean", b |-> b]
\* Infinity: what JSON.parse makes of a numeral beyond the double range
Infinity == [t |-> "number", n |-> 1, finite |-> FALSE]
EmptyObject == [t |-> "object"]

\* JavaScript truthiness: what `!x`, `x || y` and `if (x)` test
Truthy(v) ==
  CASE v.t = "null"      -> FALSE
    [] v.t = "undefined" -> FALSE
    [] v.t = "string"    -> v.s # ""
    [] v.t = "number"    -> v.n # 0
    [] v.t = "boolean"   -> v.b
    [] OTHER             -> TRUE

\* property access o.name and o?.name on a value that came out of JSON.parse
Field(o, name) ==
  IF o.t = "object" /\ name \in DOMAIN o THEN o[name] ELSE Undefined

\* x.toString() for a value that came out of JSON.parse; an object
\* with an own "toString" member (never a function in JSON) cannot be called
ToStringThrows(v) == v.t = "object" /\ "toString" \in DOMAIN v

\* (0 is the model's only finite number)
jsToString(v) ==
  CASE v.t = "string"  -> v.s
    [] v.t = "number"  -> IF v.finite THEN "0" ELSE "Infinity"
    [] v.t = "boolean" -> IF v.b THEN "true" ELSE "false"
    [] OTHER           -> "[object Object]"

(***************************************************************************)
(* JSON text.  A text is either the canonical serialisation of a JSON      *)
(* value, or one of two texts that are not: a numeral beyond the double    *)
(* range (parsed to Infinity, which JSON.stringify writes as null), and a  *)
(* text that does not parse.                                               *)
(***************************************************************************)
Canon(v) == [canon |-> v]
OverflowText == [raw |-> "1e999"]
MalformedText == [raw |-> "{bad"]
\* the body of a request sent without one
EmptyText == [raw |-> ""]

\* JSON.parse / req.json() throws SyntaxError
JsonParseThrows(text) == text \in {MalformedText, EmptyText}

JsonParse(text) ==
  IF "canon" \in DOMAIN text THEN text.canon ELSE Infinity

JsonStringify(v) == IF v = Infinity THEN Canon(Null) ELSE Canon(v)

(***************************************************************************)
(* Passwords, hashes and cookies.                                          *)
(***************************************************************************)
AUTH_COOKIE == "LM_AUTH"
DEFAULT_PASSWORD == "linkmanager"

PasswordNames == <<"pw1", "pw2", "pw3", "pw4">>
Passwords == {DEFAULT_PASSWORD} \cup {PasswordNames[i] : i \in 1..NumPasswords}

\* SHA-256 as lowercase hex: injective on the passwords of the model, and
\* never the empty string.  "sha256:p" stands for the 64 hex digits.
hashPassword(password) == "sha256:" \o password

Hashes == {hashPassword(p) : p \in Passwords}

\* A percent-escaped spelling of a text ("%61" for "a", ...): another string
\* that decodeURIComponent maps back to the text.
Escaped(s) == "%esc:" \o s
\* A text holding a "%" that starts no valid escape.
MalformedEscape == "%"

\* encodeURIComponent leaves a text of unreserved characters (hex digits are)
\* as it is and escapes any other
Unreserved(s) == s \in Hashes \cup {"", "junk", "x"}
encodeURIComponent(s) == IF Unreserved(s) THEN s ELSE Escaped(s)

\* decodeURIComponent throws URIError on a malformed escape
DecodeThrows(s) == s = MalformedEscape
decodeURIComponent(s) ==
  IF \E h \in Hashes : s = Escaped(h)
  THEN CHOOSE h \in Hashes : s = Escaped(h)
  ELSE s

(***************************************************************************)
(* The Cookie header: absent, or the parts `cookie.split(/; */)` yields,   *)
(* each part given as the segments `part.split("=")` yields.               *)
(***************************************************************************)
NoCookieHeader == [present |-> FALSE, parts |-> <<>>]
CookieHeader(parts) == [present |-> TRUE, parts |-> parts]

\* `!cookie` is true of an absent header and of the empty header (one part
\* of one empty segment)
CookieFalsy(c) == ~c.present \/ c.parts = << <<"">> >>

\* [k, v] = part.split("="): v is undefined when the part holds no "="
PartKey(part) == part[1]
PartHasValue(part) == Len(part) >= 2 /\ part[2] # ""

\* the index of the first part getCookie returns from, 0 if none
CookieHit(c, name) ==
  IF CookieFalsy(c) THEN 0
  ELSE LET hits == {i \in 1..Len(c.parts) :
                      PartKey(c.parts[i]) = name /\ PartHasValue(c.parts[i])}
       IN  IF hits = {} THEN 0 ELSE CHOOSE i \in hits : \A j \in hits : i <= j

getCookieThrows(c, name) ==
  CookieHit(c, name) # 0 /\ DecodeThrows(c.parts[CookieHit(c, name)][2])

\* the decoded value, or Null
getCookie(c, name) ==
  IF CookieHit(c, name) = 0 THEN Null
  ELSE Str(decodeURIComponent(c.parts[CookieHit(c, name)][2]))

\* The Set-Cookie value; the attributes are constant text
CookieAttributes == "; Path=/; HttpOnly; Secure; SameSite=Lax; Max-Age=2592000"
setAuthCookie(hash) ==
  [name |-> AUTH_COOKIE, value |-> encodeURIComponent(hash),
   attributes |-> CookieAttributes]
NoSetCookie == [name |-> "", value |-> "", attributes |-> ""]

(***************************************************************************)
(* KV entries: absent, or a stored text.                                   *)
(***************************************************************************)
KVAbsent == [present |-> FALSE]
KVText(text) == [present |-> TRUE, text |-> text]

\* env.LINKS_KV.get(key, "json"): null when the key is absent
KVGetJson(entry) == IF entry.present THEN JsonParse(entry.text) ELSE Null

\* getConfig: (raw as AppConfig) || {}
getConfig(cfgEntry) ==
  LET raw == KVGetJson(cfgEntry) IN IF Truthy(raw) THEN raw ELSE EmptyObject

\* a save that never reaches the config entry
saveConfig_Dropped(config) == KVAbsent

\* saveConfig: put(CONFIG_KEY, JSON.stringify(config))
saveConfig(config) == KVText(JsonStringify(config))

\* no fallback to the default password
getCurrentPasswordHash_NoDefault(cfgEntry) ==
  LET cfg == getConfig(cfgEntry)
  IN  IF Truthy(Field(cfg, "passwordHash"))
      THEN Field(cfg, "passwordHash").s
      ELSE ""

getCurrentPasswordHash(cfgEntry) ==
  LET cfg == getConfig(cfgEntry)
  IN  IF Truthy(Field(cfg, "passwordHash"))
      THEN Field(cfg, "passwordHash").s
      ELSE hashPassword(DEFAULT_PASSWORD)

isAuthenticatedThrows(c) == getCookieThrows(c, AUTH_COOKIE)

\* any non-empty token passes
isAuthenticated_AnyToken(c, cfgEntry) == Truthy(getCookie(c, AUTH_COOKIE))

isAuthenticated(c, cfgEntry) ==
  LET token == getCookie(c, AUTH_COOKIE)
  IN  IF ~Truthy(token) THEN FALSE
      ELSE token.s = getCurrentPasswordHash(cfgEntry)

(***************************************************************************)
(* Responses.                                                              *)
(***************************************************************************)
NoBody == [raw |-> ""]
AssetsBody == [raw |-> "<static asset>"]

\* json(data, init): the JSON.stringify of data, status 200 unless given
json(status, data, cookie) ==
  [kind |-> "json", status |-> status, body |-> JsonStringify(data),
   setCookie |-> cookie]

ErrorBody(message) == [t |-> "object", error |-> Str(message)]
OkBody == [t |-> "object", ok |-> Bool(TRUE)]
AuthStatusBody(ok) == [t |-> "object", authenticated |-> Bool(ok)]

\* An exception escapes `fetch`: the runtime answers with its own error page
Thrown ==
  [kind |-> "thrown", status |-> 500, body |-> NoBody, setCookie |-> NoSetCookie]

\* env.ASSETS.fetch(req): whatever the static asset handler answers
AssetStatuses == {200, 404, 405}
Assets(status) ==
  [kind |-> "assets", status |-> status, body |-> AssetsBody,
   setCookie |-> NoSetCookie]

\* what a handler leaves behind: the response and the two KV entries
Outcome(resp, cfgEntry, dataEntry) ==
  [resp |-> resp, config |-> cfgEntry, data |-> dataEntry]

\* the default document of GET /api/data
EmptyDataset == [t |-> "object", categories |-> <<>>, links |-> <<>>]

\* (body?.field || ""): the value `.toString()` is then called on
FieldOrEmpty(body, field) ==
  IF Truthy(Field(body, field)) THEN Field(body, field) ELSE Str("")

(***************************************************************************)
(* The routes of `fetch`.                                                  *)
(***************************************************************************)
\* 1. GET /api/auth-status
HandleAuthStatus(req, cfgEntry, dataEntry) ==
  IF isAuthenticatedThrows(req.cookie)
  THEN Outcome(Thrown, cfgEntry, dataEntry)
  ELSE Outcome(json(200, AuthStatusBody(isAuthenticated(req.cookie, cfgEntry)),
                    NoSetCookie),
               cfgEntry, dataEntry)

\* 2. POST /api/login
HandleLogin(req, cfgEntry, dataEntry) ==
  IF JsonParseThrows(req.body)
  THEN Outcome(json(400, ErrorBody("Invalid JSON"), NoSetCookie),
               cfgEntry, dataEntry)
  ELSE
    LET body == JsonParse(req.body)
        pw == FieldOrEmpty(body, "password")
    IN  IF ToStringThrows(pw) THEN Outcome(Thrown, cfgEntry, dataEntry)
        ELSE
          LET password == jsToString(pw)
              currentHash == getCurrentPasswordHash(cfgEntry)
              inputHash == hashPassword(password)
          IN  IF password = ""
              THEN Outcome(json(400, ErrorBody("Password required"), NoSetCookie),
                           cfgEntry, dataEntry)
              ELSE IF inputHash # currentHash
              THEN Outcome(json(401, ErrorBody("Wrong password"), NoSetCookie),
                           cfgEntry, dataEntry)
              ELSE Outcome(json(200, OkBody, setAuthCookie(currentHash)),
                           cfgEntry, dataEntry)

\* the config change-password saves: the stored config with passwordHash set
ConfigWithHash(cfgEntry, newHash) ==
  [f \in DOMAIN getConfig(cfgEntry) \cup {"passwordHash"} |->
     IF f = "passwordHash" THEN Str(newHash) ELSE getConfig(cfgEntry)[f]]

\* 3. POST /api/change-password, once the request is let through
ChangePasswordBody(req, cfgEntry, dataEntry) ==
  IF JsonParseThrows(req.body)
  THEN Outcome(json(400, ErrorBody("Invalid JSON"), NoSetCookie),
               cfgEntry, dataEntry)
  ELSE
    LET body == JsonParse(req.body)
        old == FieldOrEmpty(body, "oldPassword")
        new == FieldOrEmpty(body, "newPassword")
    IN  IF ToStringThrows(old) \/ ToStringThrows(new)
        THEN Outcome(Thrown, cfgEntry, dataEntry)
        ELSE
          LET oldPassword == jsToString(old)
              newPassword == jsToString(new)
              currentHash == getCurrentPasswordHash(cfgEntry)
              oldHash == hashPassword(oldPassword)
              newHash == hashPassword(newPassword)
          IN  IF oldPassword = "" \/ newPassword = ""
              THEN Outcome(json(400,
                                ErrorBody("oldPassword and newPassword are required"),
                                NoSetCookie),
                           cfgEntry, dataEntry)
              ELSE IF oldHash # currentHash
              THEN Outcome(json(400, ErrorBody("Old password incorrect"),
                                NoSetCookie),
                           cfgEntry, dataEntry)
              ELSE Outcome(json(200, OkBody, setAuthCookie(newHash)),
                           saveConfig(ConfigWithHash(cfgEntry, newHash)),
                           dataEntry)

\* the password change without its gate
HandleChangePassword_NoGate(req, cfgEntry, dataEntry) ==
  ChangePasswordBody(req, cfgEntry, dataEntry)

\* 3. POST /api/change-password
HandleChangePassword(req, cfgEntry, dataEntry) ==
  IF isAuthenticatedThrows(req.cookie)
  THEN Outcome(Thrown, cfgEntry, dataEntry)
  ELSE IF ~isAuthenticated(req.cookie, cfgEntry)
  THEN Outcome(json(401, ErrorBody("Unauthorized"), NoSetCookie),
               cfgEntry, dataEntry)
  ELSE ChangePasswordBody(req, cfgEntry, dataEntry)

\* a write that keeps a document already stored
StoreData_KeepFirst(dataEntry, body) ==
  IF dataEntry.present THEN dataEntry ELSE KVText(JsonStringify(body))

\* env.LINKS_KV.put(DATA_KEY, JSON.stringify(body)): the entry after the write
StoreData(dataEntry, body) == KVText(JsonStringify(body))

\* 4. /api/data, any method
HandleData(req, cfgEntry, dataEntry) ==
  IF isAuthenticatedThrows(req.cookie)
  THEN Outcome(Thrown, cfgEntry, dataEntry)
  ELSE IF ~isAuthenticated(req.cookie, cfgEntry)
  THEN Outcome(json(401, ErrorBody("Unauthorized"), NoSetCookie),
               cfgEntry, dataEntry)
  ELSE IF req.method = "GET"
  THEN LET data == KVGetJson(dataEntry)
       IN  Outcome(json(200, IF Truthy(data) THEN data ELSE EmptyDataset,
                        NoSetCookie),
                   cfgEntry, dataEntry)
  ELSE IF req.method = "POST"
  THEN IF JsonParseThrows(req.body)
       THEN Outcome(Thrown, cfgEntry, dataEntry)
       ELSE Outcome(json(200, OkBody, NoSetCookie),
                    cfgEntry, StoreData(dataEntry, JsonParse(req.body)))
  ELSE Outcome(json(405, ErrorBody("Method not allowed"), NoSetCookie),
               cfgEntry, dataEntry)

\* /api/data routed by method like the other routes, with no 405 of its own
fetch_DataByMethod(req, cfgEntry, dataEntry, assetStatus) ==
  IF req.path = "/api/auth-status" /\ req.method = "GET"
  THEN HandleAuthStatus(req, cfgEntry, dataEntry)
  ELSE IF req.path = "/api/login" /\ req.method = "POST"
  THEN HandleLogin(req, cfgEntry, dataEntry)
  ELSE IF req.path = "/api/change-password" /\ req.method = "POST"
  THEN HandleChangePassword(req, cfgEntry, dataEntry)
  ELSE IF req.path = "/api/data" /\ req.method \in {"GET", "POST"}
  THEN HandleData(req, cfgEntry, dataEntry)
  ELSE Outcome(Assets(assetStatus), cfgEntry, dataEntry)

\* the handler: the first route whose path (and method) matches, else the
\* static assets, which answer with assetStatus
fetch(req, cfgEntry, dataEntry, assetStatus) ==
  IF req.path = "/api/auth-status" /\ req.method = "GET"
  THEN HandleAuthStatus(req, cfgEntry, dataEntry)
  ELSE IF req.path = "/api/login" /\ req.method = "POST"
  THEN HandleLogin(req, cfgEntry, dataEntry)
  ELSE IF req.path = "/api/change-password" /\ req.method = "POST"
  THEN HandleChangePassword(req, cfgEntry, dataEntry)
  ELSE IF req.path = "/api/data"
  THEN HandleData(req, cfgEntry, dataEntry)
  ELSE Outcome(Assets(assetStatus), cfgEntry, dataEntry)

(***************************************************************************)
(* The requests the model sends to the worker.                             *)
(***************************************************************************)
Methods == {"GET", "POST", "PUT"}

DefaultHash == hashPassword(DEFAULT_PASSWORD)
HashCookie(h) == CookieHeader(<< <<AUTH_COOKIE, h>> >>)

CookieHeaders ==
  {NoCookieHeader, CookieHeader(<< <<"">> >>)}
  \cup {HashCookie(h) : h \in Hashes}
  \cup {CookieHeader(<< <<AUTH_COOKIE>> >>),
        CookieHeader(<< <<AUTH_COOKIE, "">> >>),
        CookieHeader(<< <<AUTH_COOKIE, "junk">> >>),
        CookieHeader(<< <<AUTH_COOKIE, MalformedEscape>> >>),
        CookieHeader(<< <<AUTH_COOKIE, Escaped(DefaultHash)>> >>),
        CookieHeader(<< <<AUTH_COOKIE, DefaultHash, "x">> >>),
        CookieHeader(<< <<"theme", "x">>, <<AUTH_COOKIE, DefaultHash>> >>),
        CookieHeader(<< <<AUTH_COOKIE, "">>, <<AUTH_COOKIE, DefaultHash>> >>),
        CookieHeader(<< <<AUTH_COOKIE, "junk">>, <<AUTH_COOKIE, DefaultHash>> >>)}

\* a JSON object whose toString member shadows Object.prototype.toString
BadObject == [t |-> "object", toString |-> Num(0)]

CredentialValues ==
  {Str(p) : p \in Passwords} \cup {Str(""), Num(0), BadObject}
LoginBodies ==
  {Canon([t |-> "object", password |-> v]) : v \in CredentialValues}
  \cup {Canon(EmptyObject), Canon(Null), MalformedText}

ChangeValues == {Str(p) : p \in Passwords} \cup {Str(""), BadObject}
ChangeBodies ==
  {Canon([t |-> "object", oldPassword |-> a, newPassword |-> b]) :
     a \in ChangeValues, b \in ChangeValues}
  \cup {Canon([t |-> "object", oldPassword |-> a]) : a \in ChangeValues}
  \cup {Canon(Null), MalformedText}

LinkNames == <<"l1", "l2", "l3">>
PostedDatasets ==
  {[t |-> "object", categories |-> cs, links |-> SubSeq(LinkNames, 1, n)] :
     cs \in {<<>>, <<"c1">>}, n \in 0..MaxPosted}
DataBodies ==
  {Canon(d) : d \in PostedDatasets}
  \cup {Canon(Null), Canon(Num(0)), OverflowText, MalformedText}

Request(path, method, cookie, body) ==
  [path |-> path, method |-> method, cookie |-> cookie, body |-> body]

Requests ==
  {Request("/api/auth-status", m, c, EmptyText) :
     m \in Methods, c \in CookieHeaders}
  \cup {Request("/api/login", "POST", NoCookieHeader, b) : b \in LoginBodies}
  \cup {Request("/api/login", m, NoCookieHeader, EmptyText) : m \in Methods}
  \cup {Request("/api/change-password", "POST", c, b) :
          c \in CookieHeaders, b \in ChangeBodies}
  \cup {Request("/api/change-password", m, c, EmptyText) :
          m \in Methods, c \in {NoCookieHeader, HashCookie(DefaultHash)}}
  \cup {Request("/api/data", m, c, EmptyText) :
          m \in Methods, c \in CookieHeaders}
  \cup {Request("/api/data", "POST", c, b) :
          c \in CookieHeaders, b \in DataBodies}
  \cup {Request("/index.html", "GET", c, EmptyText) :
          c \in {NoCookieHeader, HashCookie(DefaultHash)}}

(***************************************************************************)
(* The client: the LinkManager component.  A category is [id, order], a    *)
(* link is [id, categoryId, order]; both collections are arrays.           *)
(***************************************************************************)
Category(id, order) == [id |-> id, order |-> order]
LinkItem(id, categoryId, order) ==
  [id |-> id, categoryId |-> categoryId, order |-> order]

SEED_DATA ==
  [categories |-> <<Category("cat_dev", 0), Category("cat_design", 1),
                    Category("cat_news", 2)>>,
   links |-> <<LinkItem("link_1", "cat_dev", 0),
               LinkItem("link_2", "cat_dev", 1),
               LinkItem("link_3", "cat_design", 0)>>]

\* a dataset an earlier session left in the store: a category reordered, a
\* link without category, one whose category is gone, one added; the orders
\* as the last link drop renumbered them
EDITED_DATA ==
  [categories |-> <<Category("cat_design", 0), Category("cat_dev", 1)>>,
   links |-> <<LinkItem("link_2", "cat_design", 0),
               LinkItem("link_1", "uncategorized", 1),
               LinkItem("link_3", "cat_news", 2),
               LinkItem("link_4", "cat_dev", 3)>>]

\* another dataset an earlier session left: link_3 of the seed dropped on the
\* row of cat_dev (its order stays 0), then cat_design deleted (the order of
\* cat_news stays 2)
MOVED_DATA ==
  [categories |-> <<Category("cat_dev", 0), Category("cat_news", 2)>>,
   links |-> <<LinkItem("link_1", "cat_dev", 0),
               LinkItem("link_2", "cat_dev", 1),
               LinkItem("link_3", "cat_dev", 0)>>]

\* a third one: all categories deleted and all links but link_1
SINGLE_DATA ==
  [categories |-> <<>>, links |-> <<LinkItem("link_1", "uncategorized", 0)>>]

\* a fourth one: link_3 of the seed dropped after link_2 (the orders become
\* 0, 1, 2), link_1 and link_2 deleted, then cat_dev and cat_design deleted
TRIMMED_DATA ==
  [categories |-> <<Category("cat_news", 2)>>,
   links |-> <<LinkItem("link_3", "uncategorized", 2)>>]

\* what the worker answers while nothing is stored
EMPTY_DATA == [categories |-> <<>>, links |-> <<>>]

\* the datasets the Data API holds
LoadableDatasets ==
  {SEED_DATA, EDITED_DATA, MOVED_DATA, SINGLE_DATA, EMPTY_DATA}

\* the entry of localStorage under STORAGE_KEY
StorageAbsent == [present |-> FALSE]
StorageItem(text) == [present |-> TRUE, text |-> text]

\* what fetch(API_URL) comes to: no response (.catch(() => null)), a
\* response that is not ok, or an ok response with a body
Unreachable == [kind |-> "unreachable"]
NotOk == [kind |-> "notOk"]
OkWith(text) == [kind |-> "ok", body |-> text]
ApiAnswers ==
  {Unreachable, NotOk}
    \cup {OkWith(JsonStringify(d)) : d \in LoadableDatasets}
    \cup {OkWith(MalformedText), OkWith(JsonStringify(Null)),
          OkWith(JsonStringify(EmptyObject))}

get_SeedWithoutApi(answer, local) ==
  IF answer.kind # "ok" \/ JsonParseThrows(answer.body) THEN SEED_DATA
  ELSE LET data == JsonParse(answer.body)
       IN  IF "categories" \in DOMAIN data THEN data ELSE SEED_DATA

\* StorageProvider.get
get(answer, local) ==
  IF answer.kind # "ok"
  THEN IF local.present
       THEN IF JsonParseThrows(local.text) THEN SEED_DATA
            ELSE JsonParse(local.text)
       ELSE SEED_DATA
  ELSE IF JsonParseThrows(answer.body) THEN SEED_DATA
  ELSE LET data == JsonParse(answer.body)
       IN  IF "categories" \in DOMAIN data THEN data ELSE SEED_DATA

setItem_OnlyWhenReachable(local, data, reachable) ==
  IF reachable THEN StorageItem(JsonStringify(data)) ELSE local

\* StorageProvider.set: the entry of localStorage after it
setItem(local, data, reachable) == StorageItem(JsonStringify(data))

\* exportData: the text of the downloaded file
exportData(cats, lnks) == JsonStringify([categories |-> cats, links |-> lnks])

\* `parsed.name` is truthy: the parsed file has an array under the name
HasTruthy(parsed, name) == name \in DOMAIN parsed

importData_NeedsCategories(cats, lnks, file) ==
  IF JsonParseThrows(file) THEN [categories |-> cats, links |-> lnks]
  ELSE LET parsed == JsonParse(file)
       IN  IF parsed = Null THEN [categories |-> cats, links |-> lnks]
           ELSE IF /\ HasTruthy(parsed, "categories")
                   /\ HasTruthy(parsed, "links")
                   /\ Len(parsed.categories) > 0
           THEN [categories |-> parsed.categories, links |-> parsed.links]
           ELSE [categories |-> cats, links |-> lnks]

\* importData, reader.onload: the collections after the file is read; a text
\* that does not parse and a parsed null (whose property access throws) end
\* in the empty catch
importData(cats, lnks, file) ==
  IF JsonParseThrows(file) THEN [categories |-> cats, links |-> lnks]
  ELSE LET parsed == JsonParse(file)
       IN  IF parsed = Null THEN [categories |-> cats, links |-> lnks]
           ELSE IF /\ HasTruthy(parsed, "categories")
                   /\ HasTruthy(parsed, "links")
           THEN [categories |-> parsed.categories, links |-> parsed.links]
           ELSE [categories |-> cats, links |-> lnks]

\* whether importData calls setCategories and setLinks
importSets(file) ==
  /\ ~JsonParseThrows(file)
  /\ JsonParse(file) # Null
  /\ HasTruthy(JsonParse(file), "categories")
  /\ HasTruthy(JsonParse(file), "links")

\* the object { categories, links } as a JSON value
asJson(data) ==
  [t |-> "object", categories |-> data.categories, links |-> data.links]

\* StorageProvider.set: the body of the POST, JSON.stringify(data)
postBody(data) == JsonStringify(asJson(data))

\* the timeout of the persistence effect
NoTimer == [armed |-> FALSE]
Timer(data) == [armed |-> TRUE, data |-> data]
Dataset(cats, lnks) == [categories |-> cats, links |-> lnks]

persistenceEffect_NeverSets(timer, changed, cats, lnks) ==
  IF changed THEN NoTimer ELSE timer

\* the persistence effect, run after a render in which setCategories or
\* setLinks got a new array (changed): the cleanup clears the timeout of the
\* last run, and a new one is set unless both collections are empty
persistenceEffect(timer, changed, cats, lnks) ==
  IF ~changed THEN timer
  ELSE IF Len(cats) > 0 \/ Len(lnks) > 0 THEN Timer(Dataset(cats, lnks))
  ELSE NoTimer

\* generateId(): an id no link (no category) of the collection has
NewLinkIds == <<"link_a", "link_b", "link_c">>
NewCategoryIds == <<"cat_a", "cat_b", "cat_c">>
FreshId(pool, used) ==
  pool[CHOOSE i \in 1..Len(pool) :
         /\ pool[i] \notin used
         /\ \A j \in 1..(i - 1) : pool[j] \in used]

Ids(seq) == {seq[i].id : i \in 1..Len(seq)}

\* Array.prototype.findIndex on ids, 0-based, -1 if there is none
findIndex(seq, id) ==
  IF id \in Ids(seq)
  THEN (CHOOSE i \in 1..Len(seq) :
          seq[i].id = id /\ \A j \in 1..(i - 1) : seq[j].id # id) - 1
  ELSE -1

\* items.splice(index, 1): the array without the element at the 0-based index
spliceOut(seq, index) ==
  SubSeq(seq, 1, index) \o SubSeq(seq, index + 2, Len(seq))

\* items.splice(index, 0, x): x inserted at the 0-based index, at the end
\* when the index is beyond it
spliceIn(seq, index, x) ==
  LET at == IF index > Len(seq) THEN Len(seq) ELSE index
  IN  SubSeq(seq, 1, at) \o <<x>> \o SubSeq(seq, at + 1, Len(seq))

\* items.map((item, idx) => ({ ...item, order: idx }))
renumber(seq) == [i \in 1..Len(seq) |-> [seq[i] EXCEPT !.order = i - 1]]

\* prev.filter(x => x.id !== id)
removeId(seq, id) ==
  LET keep == {i \in 1..Len(seq) : seq[i].id # id}
      F[n \in 0..Len(seq)] ==
        IF n = 0 THEN <<>>
        ELSE IF n \in keep THEN Append(F[n - 1], seq[n]) ELSE F[n - 1]
  IN  F[Len(seq)]

dropCategory_PostRemovalIndex(prev, draggedId, targetId) ==
  LET oldIndex == findIndex(prev, draggedId)
      items == spliceOut(prev, oldIndex)
  IN  IF oldIndex # -1 /\ findIndex(prev, targetId) # -1
         /\ draggedId # targetId
      THEN renumber(spliceIn(items, findIndex(items, targetId),
                             prev[oldIndex + 1]))
      ELSE prev

\* handleDropWithState, 1: the categories after a category is dropped on a
\* category row
dropCategory(prev, draggedId, targetId) ==
  LET oldIndex == findIndex(prev, draggedId)
      newIndex == findIndex(prev, targetId)
  IN  IF oldIndex # -1 /\ newIndex # -1
      THEN renumber(spliceIn(spliceOut(prev, oldIndex), newIndex,
                             prev[oldIndex + 1]))
      ELSE prev

dropLinkOnLink_AlwaysBefore(prevLinks, draggedId, targetId, position) ==
  LET draggedLinkIndex == findIndex(prevLinks, draggedId)
      targetLinkIndex == findIndex(prevLinks, targetId)
  IN  IF draggedLinkIndex = -1 \/ targetLinkIndex = -1
         \/ draggedLinkIndex = targetLinkIndex
      THEN prevLinks
      ELSE
        LET removed == [prevLinks[draggedLinkIndex + 1] EXCEPT
                          !.categoryId = prevLinks[targetLinkIndex + 1].categoryId]
            allLinks == spliceOut(prevLinks, draggedLinkIndex)
        IN  renumber(spliceIn(allLinks, findIndex(allLinks, targetId), removed))

\* handleDropWithState, 2a: the links after a link is dropped on a link card
dropLinkOnLink(prevLinks, draggedId, targetId, position) ==
  LET draggedLinkIndex == findIndex(prevLinks, draggedId)
      targetLinkIndex == findIndex(prevLinks, targetId)
  IN  IF draggedLinkIndex = -1 \/ targetLinkIndex = -1
         \/ draggedLinkIndex = targetLinkIndex
      THEN prevLinks
      ELSE
        LET removed == [prevLinks[draggedLinkIndex + 1] EXCEPT
                          !.categoryId = prevLinks[targetLinkIndex + 1].categoryId]
            allLinks == spliceOut(prevLinks, draggedLinkIndex)
            found == findIndex(allLinks, targetId)
            newTargetIndex == IF position = "AFTER" THEN found + 1 ELSE found
        IN  renumber(spliceIn(allLinks, newTargetIndex, removed))

dropLinkOnCategory_MoveToEnd(prevLinks, draggedId, targetId) ==
  LET draggedLinkIndex == findIndex(prevLinks, draggedId)
  IN  IF draggedLinkIndex = -1 THEN prevLinks
      ELSE renumber(Append(spliceOut(prevLinks, draggedLinkIndex),
                           [prevLinks[draggedLinkIndex + 1] EXCEPT
                              !.categoryId = targetId]))

\* handleDropWithState, 2b: the links after a link is dropped on a category
\* row (or on the "uncategorized" row)
dropLinkOnCategory(prevLinks, draggedId, targetId) ==
  IF findIndex(prevLinks, draggedId) = -1 THEN prevLinks
  ELSE [i \in 1..Len(prevLinks) |->
          IF prevLinks[i].id = draggedId
          THEN [prevLinks[i] EXCEPT !.categoryId = targetId]
          ELSE prevLinks[i]]

\* handleDropWithState, 2: the links after a link is dropped
dropLink(prevLinks, draggedId, targetId, type, position) ==
  IF type = "LINK" THEN dropLinkOnLink(prevLinks, draggedId, targetId, position)
  ELSE dropLinkOnCategory(prevLinks, draggedId, targetId)

\* handleSaveLink with an id: the link changed by the form, which can give
\* it another category and keeps its id and its order
saveLink(prev, id, categoryId) ==
  [i \in 1..Len(prev) |->
     IF prev[i].id = id THEN [prev[i] EXCEPT !.categoryId = categoryId]
     ELSE prev[i]]

\* performRenameCategory: the categories with the name of one changed, which
\* keeps its id and its order
renameCategory(prev, id) ==
  [i \in 1..Len(prev) |-> prev[i]]

\* the rows of the sidebar from top to bottom: categories.map(...)
sidebarRows(cats) == [i \in 1..Len(cats) |-> cats[i].id]

uncategorize_KeepCategoryId(prev, categoryId) == prev

uncategorize_DeleteLinks(prev, categoryId) ==
  SelectSeq(prev, LAMBDA l : l.categoryId # categoryId)

\* performDelete, category: the links with those of the category moved
uncategorize(prev, categoryId) ==
  [i \in 1..Len(prev) |->
     IF prev[i].categoryId = categoryId
     THEN [prev[i] EXCEPT !.categoryId = "uncategorized"]
     ELSE prev[i]]

\* linkList.sort((a, b) => a.order - b.order): a stable sort by order
RECURSIVE sortByOrder(_)
sortByOrder(linkList) ==
  IF Len(linkList) <= 1 THEN linkList
  ELSE LET last_ == linkList[Len(linkList)]
           front == sortByOrder(SubSeq(linkList, 1, Len(linkList) - 1))
           k == Cardinality({i \in 1..Len(front) :
                               front[i].order <= last_.order})
       IN  SubSeq(front, 1, k) \o <<last_>> \o SubSeq(front, k + 1, Len(front))

\* getFilteredLinks with an empty search query
getFilteredLinks(linkList) == sortByOrder(linkList)

\* the cards of a category in the order they are shown:
\* getFilteredLinks(links.filter(l => l.categoryId === cat.id))
shownOf(allLinks, categoryId) ==
  getFilteredLinks(SelectSeq(allLinks, LAMBDA l : l.categoryId = categoryId))

\* the characters the texts of the model are made of
Letters == {"a", "A", "b", "B", " "}

\* String.prototype.toLowerCase
toLowerCase(s) ==
  [i \in 1..Len(s) |-> CASE s[i] = "A" -> "a"
                         [] s[i] = "B" -> "b"
                         [] OTHER      -> s[i]]

\* String.prototype.trim
RECURSIVE trim(_)
trim(s) ==
  IF s = <<>> THEN s
  ELSE IF Head(s) = " " THEN trim(Tail(s))
  ELSE IF s[Len(s)] = " " THEN trim(SubSeq(s, 1, Len(s) - 1))
  ELSE s

\* String.prototype.includes
includes(s, q) ==
  \E i \in 1..(Len(s) - Len(q) + 1) : SubSeq(s, i, i + Len(q) - 1) = q

\* a link with its texts; description is optional
SubLink(title) == [title |-> title]
TextLink(id, categoryId, order, title, url, subLinks) ==
  [id |-> id, categoryId |-> categoryId, order |-> order, title |-> title,
   url |-> url, subLinks |-> subLinks]
Described(link, description) ==
  [f \in DOMAIN link \cup {"description"} |->
     IF f = "description" THEN description ELSE link[f]]

getFilteredLinksFor_CaseSensitive(query, linkList) ==
  IF trim(query) = <<>> THEN sortByOrder(linkList)
  ELSE sortByOrder(SelectSeq(linkList, LAMBDA l :
         \/ includes(toLowerCase(l.title), query)
         \/ includes(toLowerCase(l.url), query)
         \/ /\ "description" \in DOMAIN l
            /\ includes(toLowerCase(l.description), query)
         \/ \E k \in 1..Len(l.subLinks) :
              includes(toLowerCase(l.subLinks[k].title), query)))

\* getFilteredLinks with the search query the component holds
getFilteredLinksFor(query, linkList) ==
  IF trim(query) = <<>> THEN sortByOrder(linkList)
  ELSE LET q == toLowerCase(query)
       IN  sortByOrder(SelectSeq(linkList, LAMBDA l :
             \/ includes(toLowerCase(l.title), q)
             \/ includes(toLowerCase(l.url), q)
             \/ /\ "description" \in DOMAIN l
                /\ includes(toLowerCase(l.description), q)
             \/ \E k \in 1..Len(l.subLinks) :
                  includes(toLowerCase(l.subLinks[k].title), q)))

\* the lists the render hands to getFilteredLinks: the section of a category
\* and the section "uncategorized" of the ALL view, and the single view
categorySection(allLinks, id) ==
  SelectSeq(allLinks, LAMBDA l : l.categoryId = id)
uncategorizedSection(cats, allLinks) ==
  SelectSeq(allLinks, LAMBDA l : \/ l.categoryId = "uncategorized"
                                 \/ l.categoryId \notin Ids(cats))
singleView(allLinks, selected) ==
  SelectSeq(allLinks, LAMBDA l : l.categoryId = selected)
\* the number on the sidebar row "uncategorized"
uncategorizedCount(allLinks) ==
  Len(SelectSeq(allLinks, LAMBDA l : l.categoryId = "uncategorized"))
scopedLists(cats, allLinks, selected) ==
  IF selected = "ALL"
  THEN {categorySection(allLinks, cats[i].id) : i \in 1..Len(cats)}
         \cup {uncategorizedSection(cats, allLinks)}
  ELSE {singleView(allLinks, selected)}

\* link lists with texts, for the search: matches in the title, the url, the
\* description and a sub-link title only, upper and lower case, a link
\* without description, orders that are not the array's
SearchedLists ==
  LET l1 == TextLink("link_1", "cat_dev", 2, <<"A", "b">>, <<"b">>, <<>>)
      l2 == Described(TextLink("link_2", "cat_dev", 0, <<"b">>,
                               <<"b", " ", "b">>, <<>>), <<"a">>)
      l3 == Described(TextLink("link_3", "cat_dev", 1, <<"B">>, <<"b">>,
                               <<SubLink(<<>>), SubLink(<<"b", "b">>)>>),
                      <<>>)
      l4 == TextLink("link_4", "uncategorized", 1, <<"a", " ", "B">>, <<>>,
                     <<>>)
      l5 == TextLink("link_5", "cat_gone", 0, <<"b">>, <<"A", "A">>,
                     <<SubLink(<<" ">>)>>)
  IN  {<<l1, l2, l3, l4, l5>>, <<l3, l1, l5, l4>>, <<l2>>, <<>>}

\* the link cards on screen: every link in the ALL view (under its category
\* or under "uncategorized"), the links of the selected category otherwise
VisibleLinkIds ==
  IF selectedCategory = "ALL" THEN Ids(links)
  ELSE {links[i].id : i \in {j \in 1..Len(links) :
                               links[j].categoryId = selectedCategory}}

\* the rows of the sidebar a drag can hover and drop on
CategoryRowIds == Ids(categories) \cup {"uncategorized"}

NoItem == [type |-> "NONE", id |-> ""]
Item(type, id) == [type |-> type, id |-> id]
NoEvent == [op |-> "none"]
Event(op) == [op |-> op]

ClientInit ==
  /\ categories = <<>>
  /\ links = <<>>
  /\ selectedCategory = "ALL"
  /\ deleteTarget = NoItem
  /\ draggedItem = NoItem
  /\ dragOverId = ""
  /\ dropPosition = "NONE"
  /\ loaded = FALSE
  /\ edits = 0
  /\ ev = NoEvent
  /\ saveTimer = NoTimer
  /\ searchQuery = <<>>
  /\ inflight = {}

dragVars == <<draggedItem, dragOverId, dropPosition>>
dataVars == <<categories, links>>

\* no modal dialog covers the page
NoModal == deleteTarget = NoItem

\* the page takes clicks: no dialog covers it and no drag holds the pointer
Clickable == NoModal /\ draggedItem = NoItem

\* loadData: the dataset StorageProvider.get() resolved to replaces both
\* collections
Load(answer) ==
  /\ UNCHANGED serverVars
  /\ UNCHANGED <<searchQuery, inflight>>
  /\ ~loaded
  /\ loaded' = TRUE
  /\ LET data == get(answer, localStorage)
     IN  /\ categories' = data.categories
         /\ links' = data.links
         /\ saveTimer' = persistenceEffect(saveTimer, TRUE, data.categories,
                                           data.links)
  /\ ev' = [op |-> "load", api |-> answer.kind]
  /\ UNCHANGED localStorage
  /\ UNCHANGED <<selectedCategory, deleteTarget, edits>>
  /\ UNCHANGED dragVars

\* the sidebar rows' onClick
SelectCategory(id) ==
  /\ UNCHANGED serverVars
  /\ UNCHANGED <<searchQuery, inflight>>
  /\ UNCHANGED <<saveTimer, localStorage>>
  /\ Clickable
  /\ selectedCategory' = id
  /\ ev' = Event("select")
  /\ UNCHANGED <<deleteTarget, loaded, edits>>
  /\ UNCHANGED dataVars
  /\ UNCHANGED dragVars

\* the search box's onChange: setSearchQuery(e.target.value)
Search(query) ==
  /\ UNCHANGED serverVars
  /\ UNCHANGED <<saveTimer, localStorage, inflight>>
  /\ NoModal
  /\ searchQuery' = query
  /\ ev' = Event("search")
  /\ UNCHANGED <<selectedCategory, deleteTarget, loaded, edits>>
  /\ UNCHANGED dataVars
  /\ UNCHANGED dragVars

\* the export button: exportData hands the file to the browser
ExportData ==
  /\ UNCHANGED serverVars
  /\ UNCHANGED <<saveTimer, localStorage, searchQuery, inflight>>
  /\ Clickable
  /\ ev' = [op |-> "export", file |-> exportData(categories, links)]
  /\ UNCHANGED <<selectedCategory, deleteTarget, loaded, edits>>
  /\ UNCHANGED dataVars
  /\ UNCHANGED dragVars

\* the import file picker: importData, up to the end of reader.onload
ImportData(file) ==
  /\ UNCHANGED serverVars
  /\ UNCHANGED <<searchQuery, inflight>>
  /\ Clickable
  /\ LET data == importData(categories, links, file)
     IN  /\ categories' = data.categories
         /\ links' = data.links
         /\ saveTimer' = persistenceEffect(saveTimer, importSets(file),
                                           data.categories, data.links)
  /\ ev' = [op |-> "import", file |-> file]
  /\ UNCHANGED localStorage
  /\ UNCHANGED <<selectedCategory, deleteTarget, loaded, edits>>
  /\ UNCHANGED dragVars

\* handleSaveLink without an id: a new link appended, order = prev.length
AddLink(categoryId) ==
  /\ UNCHANGED serverVars
  /\ UNCHANGED <<searchQuery, inflight>>
  /\ Clickable
  /\ edits < MaxEdits
  /\ Len(links) < MaxLinks
  /\ links' = Append(links,
                     LinkItem(FreshId(NewLinkIds, Ids(links)), categoryId,
                              Len(links)))
  /\ edits' = edits + 1
  /\ saveTimer' = persistenceEffect(saveTimer, TRUE, categories, links')
  /\ ev' = Event("addLink")
  /\ UNCHANGED localStorage
  /\ UNCHANGED <<categories, selectedCategory, deleteTarget, loaded>>
  /\ UNCHANGED dragVars

\* the categories the select of LinkForm offers, and the one the form was
\* opened with
FormCategories(current) == CategoryRowIds \cup {current}

\* openEditModal, the form and handleSaveLink with an id
EditLink(id, categoryId) ==
  /\ UNCHANGED serverVars
  /\ UNCHANGED <<searchQuery, inflight>>
  /\ Clickable
  /\ edits < MaxEdits
  /\ links' = saveLink(links, id, categoryId)
  /\ edits' = edits + 1
  /\ saveTimer' = persistenceEffect(saveTimer, TRUE, categories, links')
  /\ ev' = Event("editLink")
  /\ UNCHANGED localStorage
  /\ UNCHANGED <<categories, selectedCategory, deleteTarget, loaded>>
  /\ UNCHANGED dragVars

\* requestRenameCategory, the dialog and performRenameCategory
RenameCategory(id) ==
  /\ UNCHANGED serverVars
  /\ UNCHANGED <<searchQuery, inflight>>
  /\ Clickable
  /\ edits < MaxEdits
  /\ categories' = renameCategory(categories, id)
  /\ edits' = edits + 1
  /\ saveTimer' = persistenceEffect(saveTimer, TRUE, categories', links)
  /\ ev' = Event("renameCategory")
  /\ UNCHANGED localStorage
  /\ UNCHANGED <<links, selectedCategory, deleteTarget, loaded>>
  /\ UNCHANGED dragVars

\* handleAddCategory: a new category appended, order = categories.length
AddCategory ==
  /\ UNCHANGED serverVars
  /\ UNCHANGED <<searchQuery, inflight>>
  /\ Clickable
  /\ edits < MaxEdits
  /\ Len(categories) < MaxCategories
  /\ categories' = Append(categories,
                          Category(FreshId(NewCategoryIds, Ids(categories)),
                                   Len(categories)))
  /\ edits' = edits + 1
  /\ saveTimer' = persistenceEffect(saveTimer, TRUE, categories', links)
  /\ ev' = Event("addCategory")
  /\ UNCHANGED localStorage
  /\ UNCHANGED <<links, selectedCategory, deleteTarget, loaded>>
  /\ UNCHANGED dragVars

\* requestDeleteLink / requestDeleteCategory: the confirmation dialog opens
RequestDelete(item) ==
  /\ UNCHANGED serverVars
  /\ UNCHANGED <<searchQuery, inflight>>
  /\ UNCHANGED <<saveTimer, localStorage>>
  /\ Clickable
  /\ edits < MaxEdits
  /\ deleteTarget' = item
  /\ ev' = Event("requestDelete")
  /\ UNCHANGED <<selectedCategory, loaded, edits>>
  /\ UNCHANGED dataVars
  /\ UNCHANGED dragVars

\* the dialog's cancel and close buttons
CancelDelete ==
  /\ UNCHANGED serverVars
  /\ UNCHANGED <<searchQuery, inflight>>
  /\ UNCHANGED <<saveTimer, localStorage>>
  /\ deleteTarget # NoItem
  /\ deleteTarget' = NoItem
  /\ ev' = Event("cancelDelete")
  /\ UNCHANGED <<selectedCategory, loaded, edits>>
  /\ UNCHANGED dataVars
  /\ UNCHANGED dragVars

\* performDelete
PerformDelete ==
  /\ UNCHANGED serverVars
  /\ UNCHANGED <<searchQuery, inflight>>
  /\ deleteTarget # NoItem
  /\ IF deleteTarget.type = "LINK"
     THEN /\ links' = removeId(links, deleteTarget.id)
          /\ UNCHANGED <<categories, selectedCategory>>
     ELSE /\ categories' = removeId(categories, deleteTarget.id)
          /\ links' = uncategorize(links, deleteTarget.id)
          /\ selectedCategory' = IF selectedCategory = deleteTarget.id
                                 THEN "ALL" ELSE selectedCategory
  /\ deleteTarget' = NoItem
  /\ edits' = edits + 1
  /\ saveTimer' = persistenceEffect(saveTimer, TRUE, categories', links')
  /\ UNCHANGED localStorage
  /\ ev' = [op |-> "performDelete", target |-> deleteTarget,
            selected |-> selectedCategory]
  /\ UNCHANGED loaded
  /\ UNCHANGED dragVars

\* handleDragStart (a drag is followed while an edit is still within MaxEdits)
DragStart(item) ==
  /\ UNCHANGED serverVars
  /\ UNCHANGED <<searchQuery, inflight>>
  /\ UNCHANGED <<saveTimer, localStorage>>
  /\ Clickable
  /\ edits < MaxEdits
  /\ draggedItem' = item
  /\ ev' = Event("dragStart")
  /\ UNCHANGED <<dragOverId, dropPosition>>
  /\ UNCHANGED <<selectedCategory, deleteTarget, loaded, edits>>
  /\ UNCHANGED dataVars

\* handleDragOver: position is the side of the hovered element's middle the
\* pointer is on
DragOver(id, position) ==
  /\ UNCHANGED serverVars
  /\ UNCHANGED <<searchQuery, inflight>>
  /\ UNCHANGED <<saveTimer, localStorage>>
  /\ NoModal
  /\ dragOverId' = id
  /\ dropPosition' = IF draggedItem = NoItem \/ draggedItem.type # "LINK"
                     THEN dropPosition ELSE position
  /\ ev' = Event("dragOver")
  /\ UNCHANGED draggedItem
  /\ UNCHANGED <<selectedCategory, deleteTarget, loaded, edits>>
  /\ UNCHANGED dataVars

DragEnd_KeepsHover ==
  /\ UNCHANGED serverVars
  /\ UNCHANGED <<searchQuery, inflight>>
  /\ UNCHANGED <<saveTimer, localStorage>>
  /\ draggedItem # NoItem
  /\ draggedItem' = NoItem
  /\ ev' = Event("dragEnd")
  /\ UNCHANGED <<dragOverId, dropPosition>>
  /\ UNCHANGED <<selectedCategory, deleteTarget, loaded, edits>>
  /\ UNCHANGED dataVars

\* handleDragEnd
DragEnd ==
  /\ UNCHANGED serverVars
  /\ UNCHANGED <<searchQuery, inflight>>
  /\ UNCHANGED <<saveTimer, localStorage>>
  /\ draggedItem # NoItem
  /\ draggedItem' = NoItem
  /\ dragOverId' = ""
  /\ dropPosition' = "NONE"
  /\ ev' = Event("dragEnd")
  /\ UNCHANGED <<selectedCategory, deleteTarget, loaded, edits>>
  /\ UNCHANGED dataVars

\* handleDropWithState: whether an updater returns a new array and not the
\* one it got, for which React keeps the state and runs no effect
dropSetsNewArray(cats, lnks, dragged, targetId, type) ==
  IF dragged.type = "CATEGORY"
  THEN /\ type = "CATEGORY"
       /\ findIndex(cats, dragged.id) # -1
       /\ findIndex(cats, targetId) # -1
  ELSE /\ dragged.type = "LINK"
       /\ findIndex(lnks, dragged.id) # -1
       /\ type = "LINK" => /\ findIndex(lnks, targetId) # -1
                           /\ findIndex(lnks, targetId)
                                # findIndex(lnks, dragged.id)

\* handleDropWithState: the drop lands on the element the drag hovers, right
\* after a dragover there
Drop(targetId, type) ==
  /\ UNCHANGED serverVars
  /\ UNCHANGED <<searchQuery, inflight>>
  /\ NoModal
  /\ ev.op = "dragOver"
  /\ dragOverId = targetId
  /\ draggedItem # NoItem => edits < MaxEdits
  /\ dragOverId' = ""
  /\ dropPosition' = "NONE"
  /\ categories' = IF draggedItem.type = "CATEGORY" /\ type = "CATEGORY"
                   THEN dropCategory(categories, draggedItem.id, targetId)
                   ELSE categories
  /\ links' = IF draggedItem.type = "LINK"
              THEN dropLink(links, draggedItem.id, targetId, type, dropPosition)
              ELSE links
  /\ draggedItem' = NoItem
  /\ edits' = IF draggedItem # NoItem THEN edits + 1 ELSE edits
  /\ saveTimer' = persistenceEffect(
                    saveTimer,
                    dropSetsNewArray(categories, links, draggedItem, targetId,
                                     type),
                    categories', links')
  /\ ev' = [op |-> "drop", dragged |-> draggedItem, targetId |-> targetId,
            type |-> type, position |-> dropPosition,
            changed |-> dropSetsNewArray(categories, links, draggedItem,
                                         targetId, type)]
  /\ UNCHANGED <<selectedCategory, deleteTarget, loaded, localStorage>>

SaveFires_RetriesWhenUnreachable(reachable) ==
  /\ UNCHANGED serverVars
  /\ UNCHANGED <<searchQuery, inflight>>
  /\ saveTimer.armed
  /\ localStorage' = setItem(localStorage, saveTimer.data, reachable)
  /\ saveTimer' = IF reachable THEN NoTimer ELSE saveTimer
  /\ ev' = [op |-> "save", data |-> saveTimer.data, reachable |-> reachable]
  /\ UNCHANGED <<selectedCategory, deleteTarget, loaded, edits>>
  /\ UNCHANGED dataVars
  /\ UNCHANGED dragVars

\* the timeout of the persistence effect fires: StorageProvider.set with the
\* dataset of the render that set it; the POST reaches the Data API or not
SaveFires(reachable) ==
  /\ UNCHANGED serverVars
  /\ UNCHANGED <<searchQuery, inflight>>
  /\ saveTimer.armed
  /\ localStorage' = setItem(localStorage, saveTimer.data, reachable)
  /\ saveTimer' = NoTimer
  /\ ev' = [op |-> "save", data |-> saveTimer.data, reachable |-> reachable]
  /\ UNCHANGED <<selectedCategory, deleteTarget, loaded, edits>>
  /\ UNCHANGED dataVars
  /\ UNCHANGED dragVars

\* the sides of the hovered element the pointer can be on; handleDragOver
\* reads the side only while a link is dragged
Sides ==
  IF draggedItem.type = "LINK" THEN {"BEFORE", "AFTER"} ELSE {"BEFORE"}

ClientNext ==
  \/ \E answer \in ApiAnswers : Load(answer)
  \/ \E id \in CategoryRowIds \cup {"ALL"} : SelectCategory(id)
  \/ \E id \in CategoryRowIds : AddLink(id)
  \/ AddCategory
  \/ \E id \in VisibleLinkIds : RequestDelete(Item("LINK", id))
  \/ \E id \in Ids(categories) : RequestDelete(Item("CATEGORY", id))
  \/ CancelDelete
  \/ PerformDelete
  \/ \E id \in VisibleLinkIds : DragStart(Item("LINK", id))
  \/ \E id \in Ids(categories) : DragStart(Item("CATEGORY", id))
  \/ \E id \in VisibleLinkIds \cup CategoryRowIds :
       \E position \in Sides : DragOver(id, position)
  \/ DragEnd
  \/ \E id \in VisibleLinkIds : Drop(id, "LINK")
  \/ \E id \in CategoryRowIds : Drop(id, "CATEGORY")

\* the page in the ALL view, and its timeout
PageNext ==
  \/ \E answer \in ApiAnswers : Load(answer)
  \/ \E id \in CategoryRowIds : AddLink(id)
  \/ AddCategory
  \/ \E id \in VisibleLinkIds : RequestDelete(Item("LINK", id))
  \/ \E id \in Ids(categories) : RequestDelete(Item("CATEGORY", id))
  \/ CancelDelete
  \/ PerformDelete
  \/ \E id \in VisibleLinkIds : DragStart(Item("LINK", id))
  \/ \E id \in Ids(categories) : DragStart(Item("CATEGORY", id))
  \/ \E id \in VisibleLinkIds \cup CategoryRowIds :
       \E position \in Sides : DragOver(id, position)
  \/ DragEnd
  \/ \E id \in VisibleLinkIds : Drop(id, "LINK")
  \/ \E id \in CategoryRowIds : Drop(id, "CATEGORY")
  \/ \E reachable \in BOOLEAN : SaveFires(reachable)

\* the texts a search query can be
Queries == UNION {[1..n -> Letters] : n \in 0..MaxQuery}

\* the page searched and browsed
FilterNext ==
  \/ \E query \in Queries : Search(query)
  \/ \E id \in CategoryRowIds \cup {"ALL"} : SelectCategory(id)

\* the files the user picks for import: backups of datasets, the backup just
\* downloaded, files without one of the collections, and files that are no
\* backup at all
BackupFiles ==
  {exportData(d.categories, d.links) : d \in LoadableDatasets}
    \cup (IF ev.op = "export" THEN {ev.file} ELSE {})
    \cup {JsonStringify([categories |-> SEED_DATA.categories]),
          JsonStringify([links |-> SEED_DATA.links]),
          JsonStringify(EmptyObject), JsonStringify(Null), MalformedText}

\* the page edited, backed up and restored
BackupNext ==
  \/ \E answer \in ApiAnswers : Load(answer)
  \/ \E id \in CategoryRowIds : AddLink(id)
  \/ ExportData
  \/ \E file \in BackupFiles : ImportData(file)

\* the page in the ALL view with all its editing operations
EditorNext ==
  \/ \E answer \in ApiAnswers : Load(answer)
  \/ \E id \in CategoryRowIds : AddLink(id)
  \/ \E i \in 1..Len(links) :
       \E categoryId \in FormCategories(links[i].categoryId) :
          links[i].id \in VisibleLinkIds /\ EditLink(links[i].id, categoryId)
  \/ AddCategory
  \/ \E id \in Ids(categories) : RenameCategory(id)
  \/ \E id \in VisibleLinkIds : RequestDelete(Item("LINK", id))
  \/ \E id \in Ids(categories) : RequestDelete(Item("CATEGORY", id))
  \/ CancelDelete
  \/ PerformDelete
  \/ \E id \in VisibleLinkIds : DragStart(Item("LINK", id))
  \/ \E id \in Ids(categories) : DragStart(Item("CATEGORY", id))
  \/ \E id \in VisibleLinkIds \cup CategoryRowIds :
       \E position \in Sides : DragOver(id, position)
  \/ DragEnd
  \/ \E id \in VisibleLinkIds : Drop(id, "LINK")
  \/ \E id \in CategoryRowIds : Drop(id, "CATEGORY")

(***************************************************************************)
(* The worker as a state machine.                                          *)
(***************************************************************************)
NoExchange == [valid |-> FALSE]

NothingPosted == [some |-> FALSE]

ServerInit ==
  /\ kvConfig = KVAbsent
  /\ kvData = KVAbsent
  /\ last = NoExchange
  /\ posted = NothingPosted

\* the worker takes one request and runs `fetch` on it to its end
Fetch(req, assetStatus) ==
  /\ ~last.valid
  /\ LET out == fetch(req, kvConfig, kvData, assetStatus)
     IN  /\ kvConfig' = out.config
         /\ kvData' = out.data
         /\ last' = [valid |-> TRUE, req |-> req, resp |-> out.resp,
                     preConfig |-> kvConfig, preData |-> kvData]
         /\ posted' = IF /\ req.path = "/api/data" /\ req.method = "POST"
                         /\ out.resp.kind = "json" /\ out.resp.status = 200
                      THEN [some |-> TRUE, text |-> req.body]
                      ELSE posted
  /\ UNCHANGED clientVars

\* the response is sent and the invocation ends: the worker keeps nothing
\* of the exchange but the KV entries
Deliver ==
  /\ last.valid
  /\ last' = NoExchange
  /\ UNCHANGED <<kvConfig, kvData, posted>>
  /\ UNCHANGED clientVars
  /\ UNCHANGED inflight

\* some request arrives while the worker is idle
Serve ==
  /\ ~last.valid
  /\ \E req \in Requests : \E assetStatus \in AssetStatuses :
        Fetch(req, assetStatus)
  /\ UNCHANGED inflight

ServerNext == Serve \/ Deliver

\* the worker with nothing stored and the page as it mounts in a browser
\* that has not shown it before
Init == ServerInit /\ ClientInit /\ localStorage = StorageAbsent

\* what an earlier session may have left in localStorage
InitialStorage == {StorageAbsent, StorageItem(JsonStringify(EDITED_DATA))}

\* the same in a browser that may have shown the page before
PageInit == ServerInit /\ ClientInit /\ localStorage \in InitialStorage

\* the page showing one of the lists with texts
FilterInit ==
  /\ ServerInit
  /\ categories = SEED_DATA.categories
  /\ links \in SearchedLists
  /\ selectedCategory = "ALL"
  /\ deleteTarget = NoItem
  /\ draggedItem = NoItem
  /\ dragOverId = ""
  /\ dropPosition = "NONE"
  /\ loaded = TRUE
  /\ edits = 0
  /\ ev = NoEvent
  /\ saveTimer = NoTimer
  /\ localStorage = StorageAbsent
  /\ searchQuery = <<>>
  /\ inflight = {}

\* what an earlier session that deleted much may have left in localStorage
EditorStorage == {StorageAbsent, StorageItem(JsonStringify(TRIMMED_DATA))}

\* the page as it mounts in a browser that may have shown it before
EditorInit == ServerInit /\ ClientInit /\ localStorage \in EditorStorage

ServerSpec == Init /\ [][ServerNext]_vars

\* the client alone, within the delay of the persistence effect
ClientSpec == Init /\ [][ClientNext]_vars

\* the client alone in the ALL view, with the timeout of the persistence
\* effect
PageSpec == PageInit /\ [][PageNext]_vars

\* the search and the views
FilterSpec == FilterInit /\ [][FilterNext]_vars

\* backups: export and import
BackupSpec == Init /\ [][BackupNext]_vars

\* the client alone in the ALL view with all its editing operations, within
\* the delay of the persistence effect
EditorSpec == EditorInit /\ [][EditorNext]_vars

\* the cookie of the browser the page runs in: App mounts LinkManager once
\* /api/auth-status answered authenticated, here after a login with the
\* default password
SessionCookie == HashCookie(DefaultHash)

\* fetch(API_URL) of StorageProvider.get, answered by the worker when the
\* request reaches it
DataAnswer(reachable, cfgEntry, dataEntry) ==
  IF ~reachable THEN Unreachable
  ELSE LET resp == fetch(Request("/api/data", "GET", SessionCookie, EmptyText),
                         cfgEntry, dataEntry, 200).resp
       IN  IF resp.kind = "json" /\ resp.status = 200 THEN OkWith(resp.body)
           ELSE NotOk

\* the timeout of the persistence effect fires: StorageProvider.set writes
\* localStorage and sends the POST, which is lost when the Data API is
\* unreachable and is on its way to the worker otherwise
SavePosts(reachable) ==
  /\ UNCHANGED serverVars
  /\ saveTimer.armed
  /\ localStorage' = setItem(localStorage, saveTimer.data, reachable)
  /\ saveTimer' = NoTimer
  /\ inflight' = IF reachable THEN inflight \cup {postBody(saveTimer.data)}
                 ELSE inflight
  /\ ev' = [op |-> "save", data |-> saveTimer.data, reachable |-> reachable]
  /\ UNCHANGED <<selectedCategory, deleteTarget, loaded, edits, searchQuery>>
  /\ UNCHANGED dataVars
  /\ UNCHANGED dragVars

\* the worker receives one of the POSTs on their way, whichever comes first
Receive(body) ==
  /\ body \in inflight
  /\ inflight' = inflight \ {body}
  /\ Fetch(Request("/api/data", "POST", SessionCookie, body), 200)

\* the password is changed from another device, which was logged in with the
\* default password too, while the page is open (the page loads its data
\* right after /api/auth-status answered authenticated)
PasswordChanged ==
  /\ loaded
  /\ kvConfig = KVAbsent
  /\ Fetch(Request("/api/change-password", "POST", HashCookie(DefaultHash),
                   Canon([t |-> "object",
                          oldPassword |-> Str(DEFAULT_PASSWORD),
                          newPassword |-> Str(PasswordNames[1])])),
           200)
  /\ UNCHANGED inflight

\* the page, its saves and the worker
SyncNext ==
  \/ \E reachable \in BOOLEAN : Load(DataAnswer(reachable, kvConfig, kvData))
  \/ \E id \in CategoryRowIds : AddLink(id)
  \/ AddCategory
  \/ \E reachable \in BOOLEAN : SavePosts(reachable)
  \/ \E body \in inflight : Receive(body)
  \/ PasswordChanged
  \/ Deliver

\* what the Data API holds when the page mounts: nothing, or the dataset an
\* earlier session saved
InitialData == {KVAbsent, KVText(postBody(EDITED_DATA))}

\* the page as it mounts, the worker with the default password
SyncInit ==
  /\ kvConfig = KVAbsent
  /\ kvData \in InitialData
  /\ last = NoExchange
  /\ posted = NothingPosted
  /\ ClientInit
  /\ localStorage \in InitialStorage

\* the client in the ALL view together with the worker
SyncSpec == SyncInit /\ [][SyncNext]_vars

(***************************************************************************)
(* Properties of the worker.                                               *)
(***************************************************************************)
\* the password hash in force: the configured one, else the default's
EffectiveHash(cfgEntry) ==
  IF cfgEntry.present /\ "passwordHash" \in DOMAIN cfgEntry.text.canon
  THEN cfgEntry.text.canon.passwordHash.s
  ELSE "sha256:linkmanager"

\* the request's LM_AUTH cookie can be read and its value is h
CookieIs(c, h) ==
  ~getCookieThrows(c, AUTH_COOKIE) /\ getCookie(c, AUTH_COOKIE) = Str(h)

\* the exchange being answered is a request to path with method
Answered(path, method) ==
  last.valid /\ last.req.path = path /\ last.req.method = method

Unchanged == kvConfig = last.preConfig /\ kvData = last.preData

IsErrorBody(text) ==
  "canon" \in DOMAIN text /\ text.canon.t = "object"
  /\ DOMAIN text.canon = {"t", "error"}

\* C1: every request to /api/data, whatever its method, whose LM_AUTH cookie
\* is absent or is not the effective password hash is answered 401
\* Unauthorized, and the stored dataset is neither returned nor changed.
C1_UnauthenticatedDataRequestIs401 ==
  (/\ last.valid
   /\ last.req.path = "/api/data"
   /\ ~CookieIs(last.req.cookie, EffectiveHash(last.preConfig)))
  => /\ last.resp.status = 401
     /\ last.resp.body = Canon(ErrorBody("Unauthorized"))
     /\ kvData = last.preData

\* a text the worker reads back as "nothing stored": the falsy JSON values,
\* and the numeral beyond the double range, which is stored as null
ReadsAsNothing(text) ==
  text \in {Canon(Null), Canon(Num(0)), Canon(Str("")), Canon(Bool(FALSE)),
            OverflowText}

AuthenticatedGet ==
  /\ Answered("/api/data", "GET")
  /\ last.resp.kind = "json" /\ last.resp.status = 200

\* C2 as stated: an authenticated GET /api/data returns exactly the body d of
\* the last processed POST, for every JSON body d, and the empty default when
\* nothing was posted; GET changes nothing.
C2_GetReturnsLastPostedBody ==
  AuthenticatedGet
  => /\ last.resp.body = IF posted.some THEN posted.text
                         ELSE Canon(EmptyDataset)
     /\ Unchanged

\* C2, amended: an authenticated POST /api/data overwrites the stored
\* document with its body d as JSON.stringify writes it, whatever was stored;
\* an authenticated GET returns the body of the last processed POST unless
\* that body is falsy (null, false, 0, "", or a numeral stored as null), and
\* the empty default then and when nothing was posted; GET changes nothing.
C2_GetReturnsLastStoredDocument ==
  /\ AuthenticatedGet
     => /\ last.resp.body =
             IF posted.some /\ ~ReadsAsNothing(posted.text) THEN posted.text
             ELSE Canon(EmptyDataset)
        /\ Unchanged
  /\ (Answered("/api/data", "POST") /\ last.resp.status = 200)
     => /\ posted = [some |-> TRUE, text |-> last.req.body]
        /\ kvData = KVText(IF last.req.body = OverflowText THEN Canon(Null)
                           ELSE last.req.body)
        /\ kvConfig = last.preConfig

\* C2's case: a GET answered with a posted document that replaced another
C2_Witness ==
  /\ AuthenticatedGet
  /\ posted.some
  /\ posted.text = Canon([t |-> "object", categories |-> <<"c1">>,
                          links |-> <<"l1", "l2">>])
  /\ last.resp.body = posted.text

\* the Cookie header a browser sends back for a Set-Cookie value
EchoedCookie(setCookie) ==
  CookieHeader(<< <<setCookie.name, setCookie.value>> >>)

\* C3: a request is treated as authenticated exactly when its LM_AUTH cookie
\* value is non-empty and equals the effective password hash (the configured
\* one, else the default's), in /api/auth-status and in both gates; nothing
\* else decides, so the cookie issued for a password is accepted whenever
\* that password is the effective one.
C3_AuthenticatedIffCookieIsEffectiveHash ==
  /\ \A c \in CookieHeaders :
       isAuthenticated(c, kvConfig) <=> CookieIs(c, EffectiveHash(kvConfig))
  /\ Answered("/api/auth-status", "GET")
     => IF CookieIs(last.req.cookie, EffectiveHash(last.preConfig))
        THEN last.resp.body = Canon(AuthStatusBody(TRUE))
        ELSE last.resp.body # Canon(AuthStatusBody(TRUE))
  /\ (Answered("/api/change-password", "POST")
      \/ (last.valid /\ last.req.path = "/api/data"))
     => (last.resp = json(401, ErrorBody("Unauthorized"), NoSetCookie)
         <=> /\ ~getCookieThrows(last.req.cookie, AUTH_COOKIE)
             /\ ~CookieIs(last.req.cookie, EffectiveHash(last.preConfig)))
  /\ \A p \in Passwords :
       isAuthenticated(EchoedCookie(setAuthCookie(hashPassword(p))), kvConfig)
       <=> hashPassword(p) = EffectiveHash(kvConfig)
  /\ (last.valid /\ last.resp.setCookie # NoSetCookie)
     => last.resp.setCookie.name = "LM_AUTH"
        /\ last.resp.setCookie.value = EffectiveHash(kvConfig)

\* C3's case: the default password's cookie accepted after the password was
\* configured to be the default one again
C3_Witness ==
  /\ Answered("/api/auth-status", "GET")
  /\ last.req.cookie = HashCookie("sha256:linkmanager")
  /\ last.preConfig.present
  /\ last.resp.body = Canon(AuthStatusBody(TRUE))

ChangeSucceeded ==
  /\ Answered("/api/change-password", "POST")
  /\ last.resp.kind = "json" /\ last.resp.status = 200

\* the passwords of the change-password request being answered
OldPassword == jsToString(FieldOrEmpty(JsonParse(last.req.body), "oldPassword"))
NewPassword == jsToString(FieldOrEmpty(JsonParse(last.req.body), "newPassword"))

\* the answer the worker, as it now is, gives to a request
AnswerTo(req) == fetch(req, kvConfig, kvData, 200).resp

LoginRequest(password) ==
  Request("/api/login", "POST", NoCookieHeader,
          Canon([t |-> "object", password |-> Str(password)]))

AfterChange ==
  /\ AnswerTo(LoginRequest(OldPassword)).status = 401
  /\ AnswerTo(LoginRequest(NewPassword)).status = 200
  /\ AnswerTo(Request("/api/auth-status", "GET", last.req.cookie, EmptyText)).body
       = Canon(AuthStatusBody(FALSE))
  /\ AnswerTo(Request("/api/data", "GET", last.req.cookie, EmptyText)).status = 401

\* C4 as stated: for every pair of non-empty passwords (old, new), once a
\* change-password request with them has succeeded, a login with old fails,
\* a login with new succeeds and the cookie of before the change is rejected.
C4_OldFailsNewSucceeds == ChangeSucceeded => AfterChange

\* C4, amended: the same for every pair of different non-empty passwords.
C4_OldFailsNewSucceedsWhenDifferent ==
  (ChangeSucceeded /\ OldPassword # NewPassword) => AfterChange

\* C4's case: a configured password changed to another one
C4_Witness ==
  /\ ChangeSucceeded
  /\ last.preConfig.present
  /\ OldPassword = "pw1" /\ NewPassword = "pw2"

\* C5: while no passwordHash is configured, POST /api/login with password
\* "linkmanager" is answered 200 {ok: true} with a cookie carrying the hash
\* of the default password, any other non-empty password is answered 401
\* {error: "Wrong password"} with no cookie, and no login changes the stored
\* config or dataset.
C5_DefaultPasswordLogin ==
  Answered("/api/login", "POST")
  => /\ Unchanged
     /\ \A p \in Passwords \cup {"[object Object]", "0"} :
          (/\ ~last.preConfig.present
           /\ last.req.body = Canon([t |-> "object", password |-> Str(p)]))
          => IF p = "linkmanager"
             THEN /\ last.resp.status = 200
                  /\ last.resp.body = Canon(OkBody)
                  /\ last.resp.setCookie.name = "LM_AUTH"
                  /\ last.resp.setCookie.value = "sha256:linkmanager"
             ELSE last.resp = json(401, ErrorBody("Wrong password"), NoSetCookie)

\* C5's case: the default password logs in to an unconfigured store
C5_Witness ==
  /\ Answered("/api/login", "POST")
  /\ ~last.preConfig.present
  /\ last.req.body = Canon([t |-> "object", password |-> Str("linkmanager")])
  /\ last.resp.status = 200

\* the conditions of a password change: a valid cookie, both fields non-empty
\* texts, and the old password the effective one
ChangeAllowed ==
  /\ CookieIs(last.req.cookie, EffectiveHash(last.preConfig))
  /\ ~JsonParseThrows(last.req.body)
  /\ \A f \in {"oldPassword", "newPassword"} :
       /\ Field(JsonParse(last.req.body), f).t = "string"
       /\ Field(JsonParse(last.req.body), f).s # ""
  /\ hashPassword(OldPassword) = EffectiveHash(last.preConfig)

\* C6: a change-password request stores hash(new) and issues a cookie
\* carrying hash(new) only when it carries a valid cookie, both fields are
\* non-empty and hash(old) is the current hash (and it does so then); every
\* other outcome is an error response that leaves the stored config as it
\* was and issues no cookie.
C6_ChangeOnlyWhenAllowed ==
  Answered("/api/change-password", "POST")
  => IF ChangeAllowed
     THEN /\ last.resp.status = 200
          /\ EffectiveHash(kvConfig) = hashPassword(NewPassword)
          /\ kvConfig.present
          /\ last.resp.setCookie.name = "LM_AUTH"
          /\ last.resp.setCookie.value = hashPassword(NewPassword)
          /\ kvData = last.preData
     ELSE /\ last.resp.status >= 400
          /\ last.resp.setCookie = NoSetCookie
          /\ Unchanged

\* C6's case: a change refused for a wrong old password by a valid session
C6_Witness ==
  /\ Answered("/api/change-password", "POST")
  /\ CookieIs(last.req.cookie, EffectiveHash(last.preConfig))
  /\ last.resp = json(400, ErrorBody("Old password incorrect"), NoSetCookie)
  /\ last.preConfig.present

\* the request passes the gate of its route (login has none)
LetThrough ==
  \/ last.req.path = "/api/login"
  \/ CookieIs(last.req.cookie, EffectiveHash(last.preConfig))

\* C7: on POST /api/login, POST /api/change-password and POST /api/data, a
\* request whose body does not parse as JSON is answered 400 with an
\* {error: message} body and changes nothing (stated for the requests the
\* gate of the route lets through; the others are C1's).
C7_UnparseableBodyIs400 ==
  (/\ last.valid
   /\ last.req.method = "POST"
   /\ last.req.path \in {"/api/login", "/api/change-password", "/api/data"}
   /\ JsonParseThrows(last.req.body)
   /\ LetThrough)
  => /\ last.resp.status = 400
     /\ IsErrorBody(last.resp.body)
     /\ Unchanged

ApiPaths ==
  {"/api/auth-status", "/api/login", "/api/change-password", "/api/data"}

\* the methods an endpoint serves
Allowed(path) ==
  CASE path = "/api/auth-status" -> {"GET"}
    [] path = "/api/login" -> {"POST"}
    [] path = "/api/change-password" -> {"POST"}
    [] path = "/api/data" -> {"GET", "POST"}
    [] OTHER -> Methods

WrongMethod ==
  /\ last.valid
  /\ last.req.path \in ApiPaths
  /\ last.req.method \notin Allowed(last.req.path)

LinkOf(seq, id) == seq[findIndex(seq, id) + 1]

\* this step is performDelete confirming the deletion of a category
DeletesCategory ==
  /\ ev'.op = "performDelete"
  /\ deleteTarget.type = "CATEGORY"
  /\ deleteTarget.id \in Ids(categories)

\* C9: deleting a category C removes C from the categories and keeps the
\* others as they are, sets categoryId to "uncategorized" on every link whose
\* categoryId was C.id, deletes no link (the count and every link's id stay),
\* leaves the links of other categories unchanged, and resets the selected
\* view to ALL if C was selected (and leaves it otherwise).
C9_DeleteCategoryKeepsLinks ==
  [][DeletesCategory =>
       /\ deleteTarget.id \notin Ids(categories')
       /\ categories' = SelectSeq(categories, LAMBDA c : c.id # deleteTarget.id)
       /\ Len(categories') = Len(categories) - 1
       /\ Len(links') = Len(links)
       /\ \A i \in 1..Len(links) :
            /\ links'[i].id = links[i].id
            /\ links[i].categoryId = deleteTarget.id
                 => links'[i] = [links[i] EXCEPT !.categoryId = "uncategorized"]
            /\ links[i].categoryId # deleteTarget.id => links'[i] = links[i]
       /\ selectedCategory = deleteTarget.id => selectedCategory' = "ALL"
       /\ selectedCategory # deleteTarget.id
            => selectedCategory' = selectedCategory]_vars

\* the selected category cat_dev of the seed was deleted: its two links are
\* uncategorized, the third kept its category, the view is ALL
C9_Witness ==
  /\ ev.op = "performDelete"
  /\ ev.target = Item("CATEGORY", "cat_dev")
  /\ ev.selected = "cat_dev"
  /\ selectedCategory = "ALL"
  /\ Ids(categories) = {"cat_design", "cat_news"}
  /\ links = <<LinkItem("link_1", "uncategorized", 0),
               LinkItem("link_2", "uncategorized", 1),
               LinkItem("link_3", "cat_design", 0)>>

\* this step is a drop of the dragged link on the card of another link
DropsLinkOnLink ==
  /\ ev'.op = "drop"
  /\ ev'.type = "LINK"
  /\ draggedItem.type = "LINK"
  /\ draggedItem.id # ev'.targetId
  /\ draggedItem.id \in Ids(links)
  /\ ev'.targetId \in Ids(links)

\* C10: after a drop of the dragged link A on a different link B, A has B's
\* categoryId, every link's order is its index in the flat list, A sits
\* right before B when dropPosition is BEFORE and right after B when it is
\* AFTER, and the set of link ids (and their number) is unchanged.
C10_LinkDropOnLink ==
  [][DropsLinkOnLink =>
       LET A == draggedItem.id
           B == ev'.targetId
       IN  /\ dropPosition \in {"BEFORE", "AFTER"}
           /\ LinkOf(links', A).categoryId = LinkOf(links, B).categoryId
           /\ LinkOf(links', B).categoryId = LinkOf(links, B).categoryId
           /\ \A i \in 1..Len(links') : links'[i].order = i - 1
           /\ dropPosition = "BEFORE"
                => LinkOf(links', A).order + 1 = LinkOf(links', B).order
           /\ dropPosition = "AFTER"
                => LinkOf(links', A).order = LinkOf(links', B).order + 1
           /\ Ids(links') = Ids(links)
           /\ Len(links') = Len(links)]_vars

\* link_3 of the seed was dropped after link_1: it took link_1's category and
\* the place between link_1 and link_2
C10_Witness ==
  /\ ev.op = "drop"
  /\ ev.type = "LINK"
  /\ ev.dragged = Item("LINK", "link_3")
  /\ ev.targetId = "link_1"
  /\ ev.position = "AFTER"
  /\ links = <<LinkItem("link_1", "cat_dev", 0),
               LinkItem("link_3", "cat_dev", 1),
               LinkItem("link_2", "cat_dev", 2)>>

(***************************************************************************)
(* The claims about reordering.                                            *)
(***************************************************************************)
\* the ids of a sequence of items, in its order
IdSeq(seq) == [i \in 1..Len(seq) |-> seq[i].id]

\* the position of an id in a sequence of ids (0 if it is not there)
PosOf(ids, id) ==
  IF \E i \in 1..Len(ids) : ids[i] = id
  THEN CHOOSE i \in 1..Len(ids) : ids[i] = id
  ELSE 0

\* a sequence of ids with A moved right before or right after B
MoveNextTo(ids, A, B, position) ==
  LET without == SelectSeq(ids, LAMBDA x : x # A)
      b == PosOf(without, B)
      at == IF position = "AFTER" THEN b ELSE b - 1
  IN  SubSeq(without, 1, at) \o <<A>> \o SubSeq(without, at + 1, Len(without))

\* this step is a drop of the dragged link on another link of its category
ReordersWithinCategory ==
  /\ DropsLinkOnLink
  /\ LinkOf(links, draggedItem.id).categoryId
       = LinkOf(links, ev'.targetId).categoryId

\* C11: after a BEFORE/AFTER reorder drop among the N links of one category,
\* the order values of those N links are a permutation of 0..N-1, and the
\* links sorted by order are the sequence shown before the drop with the
\* dragged link moved right before/after the target.
C11_ReorderIsPermutationOfShown ==
  [][ReordersWithinCategory =>
       LET c == LinkOf(links, draggedItem.id).categoryId
           before == shownOf(links, c)
           after == shownOf(links', c)
       IN  /\ {after[i].order : i \in 1..Len(after)} = 0..(Len(before) - 1)
           /\ IdSeq(after) = MoveNextTo(IdSeq(before), draggedItem.id,
                                        ev'.targetId, dropPosition)]_vars

\* this step is a drop of the dragged item on itself: a link on its own
\* card, a category on its own row
DropsOnItself ==
  /\ ev'.op = "drop"
  /\ draggedItem # NoItem
  /\ draggedItem.type = ev'.type
  /\ draggedItem.id = ev'.targetId

\* C12: a drop of an item on itself is a no-op for both kinds of item: the
\* categories and the links are as before, every order and categoryId
\* included.
C12_SelfDropIsNoOp ==
  [][DropsOnItself => categories' = categories /\ links' = links]_vars

\* this step is a drop of the dragged category on the row of another one
DropsCategoryOnCategory ==
  /\ ev'.op = "drop"
  /\ ev'.type = "CATEGORY"
  /\ draggedItem.type = "CATEGORY"
  /\ draggedItem.id # ev'.targetId
  /\ draggedItem.id \in Ids(categories)
  /\ ev'.targetId \in Ids(categories)

\* the categories are renumbered and the same set
RenumberedSameCategories ==
  /\ \A i \in 1..Len(categories') : categories'[i].order = i - 1
  /\ Ids(categories') = Ids(categories)
  /\ Len(categories') = Len(categories)

\* C13 as stated: when category A is dropped on a different category T, A is
\* taken out and put back at the index T has after A was taken out (right
\* before T), every order is renumbered to the 0-based position, the other
\* categories keep their relative order and the set of ids is unchanged.
C13_CategoryMovesToPostRemovalIndex ==
  [][DropsCategoryOnCategory =>
       /\ IdSeq(categories') = MoveNextTo(IdSeq(categories), draggedItem.id,
                                          ev'.targetId, "BEFORE")
       /\ RenumberedSameCategories]_vars

\* C13, amended: A is put back at the index T had before A was taken out, so
\* A lands right after T when it was before T and right before T when it was
\* after T; every order is renumbered to the 0-based position, the other
\* categories keep their relative order and the set of ids is unchanged.
C13_CategoryMovesToTargetSlot ==
  [][DropsCategoryOnCategory =>
       LET ids == IdSeq(categories)
           A == draggedItem.id
           T == ev'.targetId
       IN  /\ IdSeq(categories')
                = MoveNextTo(ids, A, T, IF PosOf(ids, A) < PosOf(ids, T)
                                        THEN "AFTER" ELSE "BEFORE")
           /\ PosOf(IdSeq(categories'), A) = PosOf(ids, T)
           /\ RenumberedSameCategories]_vars

\* cat_dev, first of the seed's three, was dropped on cat_news, the last: it
\* is now after cat_news
C13_Witness ==
  /\ ev.op = "drop"
  /\ ev.type = "CATEGORY"
  /\ ev.dragged = Item("CATEGORY", "cat_dev")
  /\ ev.targetId = "cat_news"
  /\ categories = <<Category("cat_design", 0), Category("cat_news", 1),
                    Category("cat_dev", 2)>>

\* this step is a drop of the dragged link on a row of the sidebar
DropsLinkOnCategory ==
  /\ ev'.op = "drop"
  /\ ev'.type = "CATEGORY"
  /\ draggedItem.type = "LINK"
  /\ draggedItem.id \in Ids(links)

\* C14: a drop of a link on a category row (or on the "uncategorized" row)
\* changes only that link's categoryId, to the target id: its order and its
\* place in the flat list, every other link and the categories are unchanged.
C14_LinkDropOnCategoryChangesCategoryOnly ==
  [][DropsLinkOnCategory =>
       /\ categories' = categories
       /\ Len(links') = Len(links)
       /\ \A i \in 1..Len(links) :
            IF links[i].id = draggedItem.id
            THEN links'[i] = [links[i] EXCEPT !.categoryId = ev'.targetId]
            ELSE links'[i] = links[i]]_vars

\* link_1 of the seed, first in the list, was dropped on the "uncategorized"
\* row: it is still first with order 0, and only its categoryId changed
C14_Witness ==
  /\ ev.op = "drop"
  /\ ev.type = "CATEGORY"
  /\ ev.dragged = Item("LINK", "link_1")
  /\ ev.targetId = "uncategorized"
  /\ categories = SEED_DATA.categories
  /\ links = <<LinkItem("link_1", "uncategorized", 0),
               LinkItem("link_2", "cat_dev", 1),
               LinkItem("link_3", "cat_design", 0)>>

\* C15: after every end of a drag and after every drop, whether or not the
\* drop changed anything, the transient drag state is cleared: draggedItem,
\* dragOverId and dropPosition are all empty.
C15_DragStateCleared ==
  ev.op \in {"dragEnd", "drop"}
    => draggedItem = NoItem /\ dragOverId = "" /\ dropPosition = "NONE"

\* a drop that changed nothing, of a link on the lower half of its own card,
\* has cleared the drag state
C15_Witness ==
  /\ ev.op = "drop"
  /\ ev.dragged.type = "LINK"
  /\ ev.dragged.id = ev.targetId
  /\ ev.position = "AFTER"
  /\ draggedItem = NoItem /\ dragOverId = "" /\ dropPosition = "NONE"

(***************************************************************************)
(* The claims about saving and loading.                                    *)
(***************************************************************************)
\* the dataset in memory
Current == Dataset(categories, links)

\* the event was a mutation of the collections by the user: an add, a
\* delete, or a drop that reordered or recategorized
Mutation(e) ==
  \/ e.op \in {"addLink", "addCategory", "performDelete"}
  \/ e.op = "drop" /\ e.changed

\* C16: every mutation of categories or links schedules a debounced write of
\* the full current dataset, also one that leaves both collections empty:
\* right after the mutation the timeout is set, for the dataset in memory.
C16_MutationSchedulesWrite ==
  Mutation(ev) => saveTimer = Timer(Current)

\* C17: a burst of mutations, each before the delay of the one before has
\* elapsed, produces exactly one write, after the last mutation and with the
\* dataset as it is then: each mutation of the burst leaves exactly one
\* write pending, for the dataset after it, and the write that is issued
\* carries the dataset in memory and leaves none pending.
C17_BurstProducesOneWrite ==
  [][/\ Mutation(ev') => saveTimer' = Timer(Dataset(categories', links'))
     /\ ev'.op = "save" => /\ saveTimer.armed
                           /\ ev'.data = Current
                           /\ saveTimer' = NoTimer]_vars

C19_UnreachableSaveIsDropped ==
  [][/\ ev'.op = "save" /\ ~ev'.reachable
          => /\ localStorage' = StorageItem(JsonStringify(ev'.data))
             /\ ev'.data = Current
             /\ UNCHANGED <<categories, links, selectedCategory, deleteTarget,
                            draggedItem, dragOverId, dropPosition, loaded>>
             /\ saveTimer' = NoTimer
     /\ ~saveTimer.armed /\ saveTimer'.armed
          => Mutation(ev') \/ ev'.op = "load"]_vars

\* the save of the loaded seed did not reach the Data API: the seed is
\* cached and in memory, and no timeout is set
C19_Witness ==
  /\ ev.op = "save"
  /\ ~ev.reachable
  /\ ev.data = SEED_DATA
  /\ Current = SEED_DATA
  /\ localStorage = StorageItem(JsonStringify(SEED_DATA))
  /\ saveTimer = NoTimer

SameLetter(c, d) == c = d \/ {c, d} \in {{"a", "A"}, {"b", "B"}}

\* the query occurs in the text, case ignored
ContainsIgnoringCase(text, query) ==
  \E i \in 0..(Len(text) - Len(query)) :
     \A k \in 1..Len(query) : SameLetter(text[i + k], query[k])

Blank(query) == \A k \in 1..Len(query) : query[k] = " "

Matches(l, query) ==
  \/ ContainsIgnoringCase(l.title, query)
  \/ ContainsIgnoringCase(l.url, query)
  \/ "description" \in DOMAIN l /\ ContainsIgnoringCase(l.description, query)
  \/ \E k \in 1..Len(l.subLinks) :
       ContainsIgnoringCase(l.subLinks[k].title, query)

Elements(seq) == {seq[i] : i \in 1..Len(seq)}

\* C21: for the query of the search box and every list the render scopes,
\* getFilteredLinks returns exactly the links of the list whose title, url,
\* description or some sub-link title contains the query, case ignored (all
\* of them when the query is empty or blank), each once, ascending by order;
\* and searching or changing the view leaves the stored links as they are.
C21_FilterReturnsMatchesByOrder ==
  /\ [](\A scoped \in scopedLists(categories, links, selectedCategory) :
          LET res == getFilteredLinksFor(searchQuery, scoped)
              wanted == {l \in Elements(scoped) :
                           Blank(searchQuery) \/ Matches(l, searchQuery)}
          IN  /\ Elements(res) = wanted
              /\ Len(res) = Cardinality(wanted)
              /\ \A j, k \in 1..Len(res) :
                   j < k => res[j].order <= res[k].order)
  /\ [][ev'.op \in {"search", "select"} => links' = links]_vars

\* a query with a capital letter that leaves at least two links of a list,
\* not all of them, and not in the order of the array
C21_Witness ==
  /\ \E k \in 1..Len(searchQuery) : searchQuery[k] \in {"A", "B"}
  /\ \E scoped \in scopedLists(categories, links, selectedCategory) :
       LET res == getFilteredLinksFor(searchQuery, scoped)
       IN  /\ Len(res) >= 2
           /\ Len(res) < Len(scoped)
           /\ res # SelectSeq(scoped, LAMBDA l : l \in Elements(res))

\* a link whose categoryId is no category's id and not "uncategorized"
Dangling(l) == l.categoryId \notin CategoryRowIds

\* C23: a dangling link is listed under "uncategorized" in the ALL view and
\* in the view of the row "uncategorized", the number on that row counts it,
\* and every link is in the view of some sidebar row.
C23_DanglingIsUncategorizedEverywhere ==
  /\ \A l \in Elements(links) :
       Dangling(l) =>
         /\ l \in Elements(uncategorizedSection(categories, links))
         /\ l \in Elements(singleView(links, "uncategorized"))
  /\ uncategorizedCount(links)
       = Len(uncategorizedSection(categories, links))
  /\ \A l \in Elements(links) :
       \E id \in CategoryRowIds : l \in Elements(singleView(links, id))

(***************************************************************************)
(* Properties of export and import.                                        *)
(***************************************************************************)
ImportsFile == ev'.op = "import"

\* the datasets whose backup the model imports: the ones the Data API holds
\* and the one in memory
BackedUp == LoadableDatasets \cup {Dataset(categories, links)}

LoadsData == ev'.op = "load" /\ (Len(categories') > 0 \/ Len(links') > 0)

\* this step is the timeout firing with no event since the load
SavesLoaded == ev.op = "load" /\ ev'.op = "save"

\* this step is the worker receiving the write of a dataset the load fell
\* back to: the user changed nothing, the write was sent, and the Data API
\* holds another dataset than the loaded one, so the load did not get it
FallbackWriteArrives ==
  /\ ~last.valid /\ last'.valid
  /\ last'.req.path = "/api/data" /\ last'.req.method = "POST"
  /\ edits = 0
  /\ ev.op = "save" /\ ev.reachable
  /\ last'.req.body = postBody(ev.data)
  /\ kvData # KVText(postBody(ev.data))

\* C25: a load that gives a non-empty dataset sets the timeout for exactly
\* that dataset; with no event in between the timeout fires once, writing
\* that dataset; and when the load had fallen back to the cache or the seed
\* and the write reaches the worker, the stored dataset becomes the fallback
\* dataset.
C25_FallbackReplacesRemote ==
  [][/\ LoadsData => saveTimer' = Timer(Dataset(categories', links'))
     /\ SavesLoaded =>
          /\ ev'.data = Dataset(categories, links)
          /\ saveTimer' = NoTimer
          /\ ev'.reachable => postBody(Dataset(categories, links)) \in inflight'
     /\ FallbackWriteArrives => kvData' = KVText(postBody(ev.data))]_vars

\* C25, as the worker does it: the same, the stored dataset being replaced
\* when the cookie of the session still is the password hash in force as the
\* write arrives, and kept (the answer is 401, which the client ignores) when
\* the password was changed in between.
C25_FallbackReplacesRemoteWhenAuthenticated ==
  [][/\ LoadsData => saveTimer' = Timer(Dataset(categories', links'))
     /\ SavesLoaded =>
          /\ ev'.data = Dataset(categories, links)
          /\ saveTimer' = NoTimer
          /\ ev'.reachable => postBody(Dataset(categories, links)) \in inflight'
     /\ FallbackWriteArrives =>
          /\ isAuthenticated(SessionCookie, kvConfig)
               => kvData' = KVText(postBody(ev.data))
          /\ ~isAuthenticated(SessionCookie, kvConfig)
               => kvData' = kvData /\ last'.resp.status = 401]_vars

\* the Data API held the edited dataset, the load fell back to the seed, and
\* the seed has replaced the edited dataset in the store
C25_Witness ==
  /\ edits = 0
  /\ ev.op = "save" /\ ev.reachable /\ ev.data = SEED_DATA
  /\ last.valid
  /\ last.req.body = postBody(SEED_DATA)
  /\ last.preData = KVText(postBody(EDITED_DATA))
  /\ kvData = KVText(postBody(SEED_DATA))

\* nothing is pending: the data are loaded, no timeout is set, no write is on
\* its way and the worker is idle
Quiet == loaded /\ ~saveTimer.armed /\ inflight = {} /\ ~last.valid

\* C28: when nothing is pending any more, the last save was sent, the session
\* is authenticated and the dataset in memory is not empty, the dataset the
\* Data API holds is the one in memory.  (A state in which nothing is pending
\* stays as it is until the user changes something.)
C28_SavesConverge ==
  (/\ Quiet
   /\ ev.op = "save" /\ ev.reachable
   /\ isAuthenticated(SessionCookie, kvConfig)
   /\ Len(categories) > 0 \/ Len(links) > 0)
    => kvData = KVText(postBody(Dataset(categories, links)))

(***************************************************************************)
(* Properties of the display sequences and of the references.              *)
(***************************************************************************)
\* C24: the categories are displayed in ascending order of their order
\* field: a category with a smaller order is on a row above.
C24_CategoriesDisplayedByOrder ==
  \A i, j \in 1..Len(categories) :
     categories[i].order < categories[j].order
       => PosOf(sidebarRows(categories), categories[i].id)
            < PosOf(sidebarRows(categories), categories[j].id)

\* the ids of a display sequence without one link
Others(shown, id) == SelectSeq(IdSeq(shown), LAMBDA x : x # id)

\* C26: a drop of the dragged link on another link leaves, in the display
\* sequence of every category, the links other than the dragged one in the
\* relative order they had.
C26_LinkDropMovesOnlyTheDragged ==
  [][DropsLinkOnLink =>
       \A c \in {links[i].categoryId : i \in 1..Len(links)} :
          Others(shownOf(links', c), draggedItem.id)
            = Others(shownOf(links, c), draggedItem.id)]_vars

\* C27: the order given to an added link is greater than or equal to the
\* order of every link there was, and the link is displayed last in its
\* category.
C27_AddedLinkIsLast ==
  [][ev'.op = "addLink" =>
       LET new == links'[Len(links')]
           shown == shownOf(links', new.categoryId)
       IN  /\ \A i \in 1..Len(links) : new.order >= links[i].order
           /\ shown[Len(shown)].id = new.id]_vars

\* every link's categoryId is the id of a category or "uncategorized"
Integrity(cats, lnks) ==
  \A i \in 1..Len(lnks) : lnks[i].categoryId \in Ids(cats) \cup {"uncategorized"}

\* this step is one of the editing operations: adding, changing and deleting
\* a link, adding, renaming and deleting a category, a drop
Edits ==
  ev'.op \in {"addLink", "editLink", "addCategory", "renameCategory",
              "performDelete", "drop"}

\* C29: an editing operation (import and load are none) on collections in
\* which every link's categoryId is an existing category's id or
\* "uncategorized" leaves collections with the same property.
C29_EditsKeepReferences ==
  [][Edits /\ Integrity(categories, links)
       => Integrity(categories', links')]_vars

\* a category that had links was deleted and no link is left dangling
C29_Witness ==
  /\ ev.op = "performDelete"
  /\ ev.target.type = "CATEGORY"
  /\ Integrity(categories, links)
  /\ \E i \in 1..Len(links) :
       /\ links[i].categoryId = "uncategorized"
       /\ LinkOf(SEED_DATA.links, links[i].id).categoryId = ev.target.id

====
